---- MODULE Spec2Model ----
(***************************************************************************)
(* LoveACE release CLI (utils/cli.py, utils/manifest.py,                   *)
(* utils/s3_client.py): command invocations that read the manifest         *)
(* document from object storage, patch it in memory and write it back,     *)
(* uploading the installer for a release.  Every invocation is a process   *)
(* of its own; the only thing invocations share is the object store.       *)
(***************************************************************************)
EXTENDS Integers, Sequences, FiniteSets, TLC

\* ---------------------------------------------------------------- bounds
\* invocations started in one behaviour of Spec
MaxCmds == 2
\* invocations started in one behaviour of SeqSpec
MaxSeqCmds == 3
\* invocations started in one behaviour of LogSpec
MaxLogCmds == 3
\* versions already released, each with changelog text, when LogSpec starts
PrefillVersions == 9

\* the invocations that may run at the same time
Procs == {1, 2}

\* ------------------------------------------------------- program constants
PLATFORMS == {"android", "ios", "windows", "macos", "linux"}
\* the literal 10 of the changelog loop (and max_length of OTA.changelog)
MaxChangelog == 10

\* Optional[T]: None, or one value
None == <<>>
Some(x) == <<x>>

\* ------------------------------------------------------------ manifest.py
Announcement(title, content, confirm_require) ==
    [title |-> title, content |-> content, confirm_require |-> confirm_require]

\* the computed field md5 of an announcement: a digest of title + content
md5(a) == <<"md5", a.title, a.content>>

ChangelogEntry(version, changes) == [version |-> version, changes |-> changes]

PlatformRelease(version, force_ota, url, md5sum) ==
    [version |-> version, force_ota |-> force_ota, url |-> url, md5 |-> md5sum]

\* OTA(content=..., changelog=...): every platform field defaults to None
OTA(content, changelog) ==
    [k \in {"content", "changelog"} \cup PLATFORMS |->
        IF k = "content" THEN content
        ELSE IF k = "changelog" THEN changelog
        ELSE None]

\* LoveACEManifest(): both fields default to None
LoveACEManifest == [announcement |-> None, ota |-> None]

\* model_dump_json(exclude_none=True) of an OTA: a None platform has no key
DumpOTA(o) ==
    [k \in {"content", "changelog"} \cup {q \in PLATFORMS : o[q] # None} |->
        IF k = "content" THEN o["content"]
        ELSE IF k = "changelog" THEN o["changelog"]
        ELSE o[k][1]]

\* model_dump_json of an announcement: the computed md5 is written with it
DumpAnnouncement(a) ==
    [title |-> a.title, content |-> a.content,
     confirm_require |-> a.confirm_require, md5 |-> md5(a)]

\* manifest.model_dump_json(exclude_none=True): the JSON object that is stored
model_dump_json(m) ==
    [k \in {f \in {"announcement", "ota"} : m[f] # None} |->
        IF k = "announcement" THEN DumpAnnouncement(m.announcement[1])
        ELSE DumpOTA(m.ota[1])]

\* OTA.model_validate of the JSON object j: a missing platform key is None
ValidateOTA(j) ==
    [k \in {"content", "changelog"} \cup PLATFORMS |->
        IF k \in DOMAIN j THEN (IF k \in PLATFORMS THEN Some(j[k]) ELSE j[k])
        ELSE IF k = "content" THEN ""
        ELSE IF k = "changelog" THEN <<>>
        ELSE None]

\* Announcement.model_validate: the stored md5 key is ignored (it is computed)
ValidateAnnouncement(j) == Announcement(j.title, j.content, j.confirm_require)

\* LoveACEManifest.model_validate(d)
model_validate(d) ==
    [announcement |-> IF "announcement" \in DOMAIN d
                      THEN Some(ValidateAnnouncement(d["announcement"])) ELSE None,
     ota |-> IF "ota" \in DOMAIN d THEN Some(ValidateOTA(d["ota"])) ELSE None]

\* ----------------------------------------------------------- s3_client.py
\* What is stored under MANIFEST_KEY: nothing, bytes that are no JSON, JSON
\* that is no manifest, or a JSON manifest document.
Absent == [kind |-> "absent", body |-> <<>>]
Corrupt == [kind |-> "corrupt", body |-> <<>>]
Invalid == [kind |-> "invalid", body |-> <<>>]
Json(d) == [kind |-> "json", body |-> d]
NoData == [kind |-> "none", body |-> <<>>]

\* get_json with no try/except: bytes that are no JSON raise in the caller
get_jsonStrict(s) == IF s.kind = "absent" THEN NoData ELSE IF s.kind = "corrupt" THEN Invalid ELSE s

\* S3Client.get_json: every exception of the read or of json.loads gives None
get_json(s) == IF s.kind \in {"absent", "corrupt"} THEN NoData ELSE s

\* S3Client._get_url: the CDN base in front of the key
CdnBase == "cdn"
get_url(s3_key) == <<CdnBase>> \o s3_key

\* ----------------------------------------------------------------- cli.py
\* the local files a release may name
FilesOnDisk == {"app.apk"}

\* get_file_md5: a digest of the file's bytes
get_file_md5(file) == <<"md5", file>>

\* s3_key = f"loveace/releases/{platform}/{version}/{file.name}"
release_key(c) == <<"loveace/releases", c.platform, c.version, c.file>>

\* load_manifest on what get_json returned: a falsy value (None, {}) gives the
\* empty manifest, anything else is validated, and a document that does not
\* validate raises
load_raises(data) == data.kind = "invalid"
load_manifest(data) ==
    IF data.kind = "json" /\ DOMAIN data.body # {}
    THEN model_validate(data.body)
    ELSE LoveACEManifest

\* the loop with no test of the entry's version
RECURSIVE KeepOldNoDedupe(_, _, _)
KeepOldNoDedupe(old, version, changelogs) ==
    IF old = <<>> THEN changelogs
    ELSE KeepOldNoDedupe(Tail(old), version,
                         IF Len(changelogs) < MaxChangelog
                         THEN Append(changelogs, Head(old))
                         ELSE changelogs)

\* the loop of release that keeps the old entries: every entry of another
\* version, while fewer than 10 entries are kept
RECURSIVE KeepOld(_, _, _)
KeepOld(old, version, changelogs) ==
    IF old = <<>> THEN changelogs
    ELSE KeepOld(Tail(old), version,
                 IF Head(old).version # version /\ Len(changelogs) < MaxChangelog
                 THEN Append(changelogs, Head(old))
                 ELSE changelogs)

\* release, lines 125-134: the changelog that is stored by this release
BuildChangelog(m, version, changelog) ==
    LET changelogs == IF changelog # ""
                      THEN <<ChangelogEntry(version, changelog)>> ELSE <<>>
    IN IF m.ota # None /\ m.ota[1]["changelog"] # <<>>
       THEN KeepOld(m.ota[1]["changelog"], version, changelogs)
       ELSE changelogs

\* a release that always builds a new OTA object
UpdateOTAFresh(m, content, changelogs) ==
    OTA(IF m.ota # None /\ content = "" THEN m.ota[1]["content"] ELSE content, changelogs)

\* a release that stores the content it was given, empty or not
UpdateOTAOverwrite(m, content, changelogs) ==
    IF m.ota # None
    THEN [m.ota[1] EXCEPT !["changelog"] = changelogs, !["content"] = content]
    ELSE OTA(content, changelogs)

\* release, lines 136-148: the OTA object that the release goes on with
UpdateOTA(m, content, changelogs) ==
    IF m.ota # None
    THEN [m.ota[1] EXCEPT !["changelog"] = changelogs,
                          !["content"] = IF content # "" THEN content ELSE @]
    ELSE OTA(content, changelogs)

\* release, lines 125-159: the manifest in memory after the release's update
ReleaseUpdate(m, c, download_url) ==
    LET changelogs == BuildChangelog(m, c.version, c.changelog)
        ota == UpdateOTA(m, c.content, changelogs)
        platform_release ==
            PlatformRelease(c.version, c.force, download_url, get_file_md5(c.file))
    IN [m EXCEPT !.ota = Some([ota EXCEPT ![c.platform] = Some(platform_release)])]

\* set_force, lines 254-256
SetForceUpdate(m, c) ==
    [m EXCEPT !.ota = Some([m.ota[1] EXCEPT ![c.platform] =
                               Some([m.ota[1][c.platform][1] EXCEPT !.force_ota = c.force])])]

\* announce, lines 62-67, and clear_announce, line 86
AnnounceUpdate(m, c) ==
    [m EXCEPT !.announcement = Some(Announcement(c.title, c.content, c.confirm))]
ClearUpdate(m) == [m EXCEPT !.announcement = None]

\* the update a command makes between its read and its write
Apply(m, c, download_url) ==
    CASE c.op = "announce" -> AnnounceUpdate(m, c)
      [] c.op = "clear_announce" -> ClearUpdate(m)
      [] c.op = "release" -> ReleaseUpdate(m, c, download_url)
      [] c.op = "set_force" -> SetForceUpdate(m, c)
      [] OTHER -> m

\* ---------------------------------------------------------------- commands
Cmd(op, title, content, confirm, version, platform, file, force, changelog) ==
    [op |-> op, title |-> title, content |-> content, confirm |-> confirm,
     version |-> version, platform |-> platform, file |-> file, force |-> force,
     changelog |-> changelog]
NoCmd == Cmd("none", "", "", FALSE, 0, "", "", FALSE, "")
AnnounceCmd(title, content, confirm) ==
    Cmd("announce", title, content, confirm, 0, "", "", FALSE, "")
ClearCmd == Cmd("clear_announce", "", "", FALSE, 0, "", "", FALSE, "")
StatusCmd == Cmd("status", "", "", FALSE, 0, "", "", FALSE, "")
ReleaseCmd(version, platform, file, force, content, changelog) ==
    Cmd("release", "", content, FALSE, version, platform, file, force, changelog)
SetForceCmd(platform, force) ==
    Cmd("set_force", "", "", FALSE, 0, platform, "", force, "")

\* ------------------------------------------------------------------- state
VARIABLES
    store,         \* the object stored under MANIFEST_KEY
    artifacts,     \* the installer keys stored by a completed upload
    pc,            \* where each invocation is
    cmd,           \* the command and arguments of each invocation
    loaded,        \* what get_json returned to the invocation
    seen,          \* what the invocation's read met in storage
    manifest,      \* the invocation's manifest in memory
    download_url,  \* what upload_file returned to the invocation, if it ran
    reason,        \* why the invocation exited non-zero
    trace,         \* the remote calls the invocation has made, in order
    ncmds,         \* invocations started
    nwrites,       \* manifest writes completed
    readAt,        \* nwrites when the invocation read the manifest
    wroteAt,       \* nwrites just after the invocation wrote the manifest
    lastLog,       \* the last completed release that gave changelog text
    lastContent    \* the last non-empty content a completed release gave

vars == <<store, artifacts, pc, cmd, loaded, seen, manifest, download_url, reason,
          trace, ncmds, nwrites, readAt, wroteAt, lastLog, lastContent>>

InitFrom(s, keys, log) ==
    /\ store = s
    /\ artifacts = keys
    /\ pc = [p \in Procs |-> "idle"]
    /\ cmd = [p \in Procs |-> NoCmd]
    /\ loaded = [p \in Procs |-> NoData]
    /\ seen = [p \in Procs |-> ""]
    /\ manifest = [p \in Procs |-> LoveACEManifest]
    /\ download_url = [p \in Procs |-> None]
    /\ reason = [p \in Procs |-> ""]
    /\ trace = [p \in Procs |-> <<>>]
    /\ ncmds = 0
    /\ nwrites = 0
    /\ readAt = [p \in Procs |-> 0]
    /\ wroteAt = [p \in Procs |-> 0]
    /\ lastLog = log
    /\ lastContent = ""

InitWith(s) == InitFrom(s, {}, None)

\* ------------------------------------------------------------------ actions
\* the checks without the one of the file
CheckArgsNoFile(c) ==
    IF c.op \in {"release", "set_force"} /\ c.platform \notin PLATFORMS
    THEN "InvalidPlatform"
    ELSE ""

\* The checks a command makes on its arguments before it makes the storage
\* client (release lines 105-111, set_force lines 238-240): the error, or "".
CheckArgs(c) ==
    IF c.op \in {"release", "set_force"} /\ c.platform \notin PLATFORMS
    THEN "InvalidPlatform"
    ELSE IF c.op = "release" /\ c.file \notin FilesOnDisk
    THEN "FileNotFound"
    ELSE ""

\* A command starts, checks its arguments and exits on an error.
Invoke(p, c) ==
    /\ pc[p] = "idle"
    /\ ncmds' = ncmds + 1
    /\ cmd' = [cmd EXCEPT ![p] = c]
    /\ reason' = [reason EXCEPT ![p] = CheckArgs(c)]
    /\ pc' = [pc EXCEPT ![p] = IF CheckArgs(c) # "" THEN "failed" ELSE "load"]
    /\ UNCHANGED <<store, artifacts, loaded, seen, manifest, download_url, trace,
                   nwrites, readAt, wroteAt, lastLog, lastContent>>

\* a release that writes the manifest with no upload before
AfterLoadSkipUpload(c, m) ==
    CASE c.op = "status" -> [pc |-> "done", reason |-> ""]
      [] c.op = "set_force" ->
            IF m.ota = None
            THEN [pc |-> "failed", reason |-> "NoOtaConfigured"]
            ELSE IF m.ota[1][c.platform] = None
            THEN [pc |-> "failed", reason |-> "PlatformNotReleased"]
            ELSE [pc |-> "save", reason |-> ""]
      [] OTHER -> [pc |-> "save", reason |-> ""]

\* a set_force that does not look for the platform's release
AfterLoadNoReleaseCheck(c, m) ==
    CASE c.op = "status" -> [pc |-> "done", reason |-> ""]
      [] c.op = "release" -> [pc |-> "upload", reason |-> ""]
      [] c.op = "set_force" ->
            IF m.ota = None
            THEN [pc |-> "failed", reason |-> "NoOtaConfigured"]
            ELSE [pc |-> "save", reason |-> ""]
      [] OTHER -> [pc |-> "save", reason |-> ""]

\* Where command c goes with the manifest m it loaded: status ends, release
\* uploads, set_force checks lines 245-252, announce and clear_announce save.
AfterLoad(c, m) ==
    CASE c.op = "status" -> [pc |-> "done", reason |-> ""]
      [] c.op = "release" -> [pc |-> "upload", reason |-> ""]
      [] c.op = "set_force" ->
            IF m.ota = None
            THEN [pc |-> "failed", reason |-> "NoOtaConfigured"]
            ELSE IF m.ota[1][c.platform] = None
            THEN [pc |-> "failed", reason |-> "PlatformNotReleased"]
            ELSE [pc |-> "save", reason |-> ""]
      [] OTHER -> [pc |-> "save", reason |-> ""]

\* What the command does with the data of its read, up to its next remote call
\* or its exit; kind is what the read met in storage.
AfterRead(p, data, kind) ==
    /\ loaded' = [loaded EXCEPT ![p] = data]
    /\ seen' = [seen EXCEPT ![p] = kind]
    /\ trace' = [trace EXCEPT ![p] = Append(@, "read")]
    /\ readAt' = [readAt EXCEPT ![p] = nwrites]
    /\ IF load_raises(data)
       THEN /\ pc' = [pc EXCEPT ![p] = "failed"]
            /\ reason' = [reason EXCEPT ![p] = "ValidationError"]
            /\ UNCHANGED manifest
       ELSE LET m == load_manifest(data)
                next == AfterLoad(cmd[p], m)
            IN /\ manifest' = [manifest EXCEPT ![p] = m]
               /\ pc' = [pc EXCEPT ![p] = next.pc]
               /\ reason' = [reason EXCEPT ![p] = next.reason]
    /\ UNCHANGED <<store, artifacts, cmd, download_url, ncmds, nwrites, wroteAt,
                   lastLog, lastContent>>

\* load_manifest(client): the read of the stored manifest
Load(p) ==
    /\ pc[p] = "load"
    /\ AfterRead(p, get_json(store), store.kind)

\* the read fails in transit: get_json swallows the exception and returns None
LoadFault(p) ==
    /\ pc[p] = "load"
    /\ AfterRead(p, NoData, "fault")

\* client.upload_file(str(file), s3_key), release line 123
Upload(p) ==
    /\ pc[p] = "upload"
    /\ artifacts' = artifacts \cup {release_key(cmd[p])}
    /\ download_url' = [download_url EXCEPT ![p] = Some(get_url(release_key(cmd[p])))]
    /\ trace' = [trace EXCEPT ![p] = Append(@, "upload")]
    /\ pc' = [pc EXCEPT ![p] = "save"]
    /\ UNCHANGED <<store, cmd, loaded, seen, manifest, reason, ncmds, nwrites, readAt,
                   wroteAt, lastLog, lastContent>>

\* an upload whose exception is swallowed: the release goes on to its write
UploadFailSwallowed(p) ==
    /\ pc[p] = "upload"
    /\ pc' = [pc EXCEPT ![p] = "save"]
    /\ trace' = [trace EXCEPT ![p] = Append(@, "upload!")]
    /\ UNCHANGED <<store, artifacts, cmd, loaded, seen, manifest, download_url, reason,
                   ncmds, nwrites, readAt, wroteAt, lastLog, lastContent>>

\* the upload raises: nothing is stored and the command ends there
UploadFail(p) ==
    /\ pc[p] = "upload"
    /\ pc' = [pc EXCEPT ![p] = "failed"]
    /\ reason' = [reason EXCEPT ![p] = "UploadFailed"]
    /\ trace' = [trace EXCEPT ![p] = Append(@, "upload!")]
    /\ UNCHANGED <<store, artifacts, cmd, loaded, seen, manifest, download_url, ncmds,
                   nwrites, readAt, wroteAt, lastLog, lastContent>>

\* an update made on the manifest stored at the time of the write
UpdatedMerged(p) ==
    Apply(load_manifest(get_json(store)), cmd[p],
          IF download_url[p] = None THEN <<>> ELSE download_url[p][1])

\* the manifest the command saves: its update of the manifest it loaded
Updated(p) ==
    Apply(manifest[p], cmd[p],
          IF download_url[p] = None THEN <<>> ELSE download_url[p][1])

\* the command's update in memory, then save_manifest(client, manifest)
Save(p) ==
    /\ pc[p] = "save"
    /\ manifest' = [manifest EXCEPT ![p] = Updated(p)]
    /\ store' = Json(model_dump_json(Updated(p)))
    /\ trace' = [trace EXCEPT ![p] = Append(@, "write")]
    /\ nwrites' = nwrites + 1
    /\ wroteAt' = [wroteAt EXCEPT ![p] = nwrites + 1]
    /\ pc' = [pc EXCEPT ![p] = "done"]
    /\ lastLog' = IF cmd[p].op = "release" /\ cmd[p].changelog # ""
                  THEN Some(ChangelogEntry(cmd[p].version, cmd[p].changelog))
                  ELSE lastLog
    /\ lastContent' = IF cmd[p].op = "release" /\ cmd[p].content # ""
                      THEN cmd[p].content ELSE lastContent
    /\ UNCHANGED <<artifacts, cmd, loaded, seen, download_url, reason, ncmds, readAt>>

\* the manifest write raises: the stored object is replaced whole or not at all
SaveFail(p) ==
    /\ pc[p] = "save"
    /\ pc' = [pc EXCEPT ![p] = "failed"]
    /\ reason' = [reason EXCEPT ![p] = "WriteFailed"]
    /\ trace' = [trace EXCEPT ![p] = Append(@, "write!")]
    /\ UNCHANGED <<store, artifacts, cmd, loaded, seen, manifest, download_url, ncmds,
                   nwrites, readAt, wroteAt, lastLog, lastContent>>

\* the process exits; its slot is free for the next invocation
Exit(p) ==
    /\ pc[p] \in {"done", "failed"}
    /\ pc' = [pc EXCEPT ![p] = "idle"]
    /\ cmd' = [cmd EXCEPT ![p] = NoCmd]
    /\ loaded' = [loaded EXCEPT ![p] = NoData]
    /\ seen' = [seen EXCEPT ![p] = ""]
    /\ manifest' = [manifest EXCEPT ![p] = LoveACEManifest]
    /\ download_url' = [download_url EXCEPT ![p] = None]
    /\ reason' = [reason EXCEPT ![p] = ""]
    /\ trace' = [trace EXCEPT ![p] = <<>>]
    /\ readAt' = [readAt EXCEPT ![p] = 0]
    /\ wroteAt' = [wroteAt EXCEPT ![p] = 0]
    /\ UNCHANGED <<store, artifacts, ncmds, nwrites, lastLog, lastContent>>

\* ------------------------------------------------------ concurrent commands
\* the arguments tried: valid and invalid platforms, present and missing files
Commands ==
    {AnnounceCmd("t", "c", TRUE), ClearCmd, StatusCmd}
    \cup {SetForceCmd(q, TRUE) : q \in {"android", "ios", "web"}}
    \cup {ReleaseCmd(v, q, "app.apk", FALSE, t[1], t[2]) :
            v \in {1, 2}, q \in {"android", "ios"}, t \in {<<"", "">>, <<"A", "x">>}}
    \cup {ReleaseCmd(1, "web", "app.apk", FALSE, "A", "x"),
          ReleaseCmd(1, "android", "missing.apk", FALSE, "A", "x"),
          ReleaseCmd(1, "web", "missing.apk", FALSE, "A", "x")}

\* the slots are interchangeable: a new invocation takes the first idle one
FirstIdle(p) == \A q \in Procs : pc[q] = "idle" => p <= q

Init == \E s \in {Absent, Corrupt, Invalid} : InitWith(s)

Next ==
    \/ \E p \in Procs, c \in Commands :
          ncmds < MaxCmds /\ FirstIdle(p) /\ Invoke(p, c)
    \/ \E p \in Procs : Load(p)
    \/ \E p \in Procs : LoadFault(p)
    \/ \E p \in Procs : Upload(p)
    \/ \E p \in Procs : UploadFail(p)
    \/ \E p \in Procs : Save(p)
    \/ \E p \in Procs : SaveFail(p)
    \/ \E p \in Procs : Exit(p)

Spec == Init /\ [][Next]_vars

\* ------------------------------------------------------ commands in sequence
\* One operator at one terminal: an invocation starts when the one before it
\* has exited, the manifest starts absent and every read returns what is stored.
SeqCommands ==
    {AnnounceCmd("t", "c", TRUE), ClearCmd, StatusCmd, SetForceCmd("android", TRUE)}
    \cup {ReleaseCmd(v, q, "app.apk", FALSE, ct, cl) :
            v \in {1, 2}, q \in {"android", "ios"}, ct \in {"", "A", "B"},
            cl \in {"", "x"}}

SeqInit == InitWith(Absent)

SeqNext ==
    \/ \E c \in SeqCommands : ncmds < MaxSeqCmds /\ Invoke(1, c)
    \/ Load(1)
    \/ Upload(1)
    \/ UploadFail(1)
    \/ Save(1)
    \/ SaveFail(1)
    \/ Exit(1)

SeqSpec == SeqInit /\ [][SeqNext]_vars

\* ------------------------------------------------- releases on a long changelog
\* The manifest after versions 1..n were released to android in turn, each with
\* changelog text: what the release command itself leaves behind.
PrefillCmd(n) == ReleaseCmd(n, "android", "app.apk", FALSE, "", "x")

RECURSIVE Prefilled(_)
Prefilled(n) ==
    IF n = 0 THEN LoveACEManifest
    ELSE ReleaseUpdate(Prefilled(n - 1), PrefillCmd(n), get_url(release_key(PrefillCmd(n))))

\* Releases in sequence that start from there: of an old version, of the newest
\* one and of new ones, to either platform, with and without changelog text.
LogCommands ==
    {ReleaseCmd(v, q, "app.apk", FALSE, "", cl) :
        v \in {2, PrefillVersions, PrefillVersions + 1, PrefillVersions + 2},
        q \in {"android", "ios"}, cl \in {"", "y"}}

LogInit ==
    InitFrom(Json(model_dump_json(Prefilled(PrefillVersions))),
             {release_key(PrefillCmd(n)) : n \in 1..PrefillVersions},
             Some(ChangelogEntry(PrefillVersions, "x")))

LogNext ==
    \/ \E c \in LogCommands : ncmds < MaxLogCmds /\ Invoke(1, c)
    \/ Load(1)
    \/ Upload(1)
    \/ Save(1)
    \/ Exit(1)

LogSpec == LogInit /\ [][LogNext]_vars

\* ------------------------------------------------- reading stored documents
\* the JSON object d, read as a client of the manifest reads it
JOta(d) == IF "ota" \in DOMAIN d THEN Some(d["ota"]) ELSE None
JAnnouncement(d) == IF "announcement" \in DOMAIN d THEN Some(d["announcement"]) ELSE None
JRecord(d, q) ==
    IF JOta(d) # None /\ q \in DOMAIN JOta(d)[1] THEN Some(JOta(d)[1][q]) ELSE None
JChangelog(d) == IF JOta(d) = None THEN <<>> ELSE JOta(d)[1]["changelog"]
JContent(d) == IF JOta(d) = None THEN "" ELSE JOta(d)[1]["content"]

\* the JSON object now stored (the empty object when none is)
StoredBody == IF store.kind = "json" THEN store.body ELSE <<>>
\* the JSON object invocation p got from its read (the empty object for None)
LoadedBody(p) == IF loaded[p].kind = "json" THEN loaded[p].body ELSE <<>>

\* p has written the manifest and nobody has written it since
WroteLast(p) == pc[p] = "done" /\ wroteAt[p] > 0 /\ wroteAt[p] = nwrites
HasRead(p) == seen[p] # ""
Releases(p) == cmd[p].op = "release"

\* ---------------------------------------------------------------------- C1
\* C1 (as claimed): after releases in sequence from an absent manifest, the
\* stored changelog has at most 10 entries, at most one entry per version, and
\* its first entry is that of the most recent release that gave changelog text.
C1_ChangelogInvariant ==
    LET log == JChangelog(StoredBody) IN
    /\ Len(log) <= MaxChangelog
    /\ \A i, j \in 1..Len(log) : log[i].version = log[j].version => i = j
    /\ lastLog # None => (Len(log) >= 1 /\ log[1] = lastLog[1])

\* ---------------------------------------------------------------------- C2
\* C2: when a release to platform P has written the manifest, the stored
\* record of every other platform Q is the record of Q in the JSON object the
\* release read, and Q has no record if it had none there.
C2_OtherPlatformsKept ==
    \A p \in Procs :
        (Releases(p) /\ WroteLast(p)) =>
            /\ store.kind = "json"
            /\ \A q \in PLATFORMS \ {cmd[p].platform} :
                   JRecord(StoredBody, q) = JRecord(LoadedBody(p), q)

\* a release to one platform wrote while the manifest it read held another's
C2_Witness ==
    \E p \in Procs :
        /\ Releases(p) /\ WroteLast(p)
        /\ \E q \in PLATFORMS \ {cmd[p].platform} : JRecord(LoadedBody(p), q) # None

\* ---------------------------------------------------------------------- C3
\* what a command changes in the stored object: one of its two top-level keys
Touches(c) == IF c.op \in {"announce", "clear_announce"} THEN "announcement" ELSE "ota"
JField(d, f) == IF f \in DOMAIN d THEN Some(d[f]) ELSE None

\* p and q both read the manifest before either of them wrote it; p wrote last
Raced(p, q) ==
    /\ p # q
    /\ wroteAt[p] > 0 /\ wroteAt[q] > 0
    /\ readAt[p] < wroteAt[q] /\ wroteAt[q] < wroteAt[p]
    /\ readAt[q] < wroteAt[q]
    /\ wroteAt[p] = nwrites

\* C3: when two invocations both read before either writes, the stored
\* manifest after both writes is the object the last writer made from what it
\* read: the key the last writer does not change has the value the last writer
\* read, not the one the other wrote, and neither invocation reports an error.
C3_LastWriteWins ==
    \A p, q \in Procs :
        Raced(p, q) =>
            /\ pc[p] = "done" /\ pc[q] = "done"
            /\ reason[p] = "" /\ reason[q] = ""
            /\ store = Json(model_dump_json(
                           Apply(load_manifest(loaded[p]), cmd[p],
                                 IF Releases(p) THEN get_url(release_key(cmd[p]))
                                 ELSE <<>>)))
            /\ \A f \in {"announcement", "ota"} \ {Touches(cmd[p])} :
                   JField(StoredBody, f) = JField(LoadedBody(p), f)
            /\ \A x \in PLATFORMS :
                   (Releases(p) /\ x # cmd[p].platform) =>
                       JRecord(StoredBody, x) = JRecord(LoadedBody(p), x)

\* a lost update: the other invocation set an announcement, the last writer
\* released, and the stored manifest has no announcement
C3_Witness ==
    \E p, q \in Procs :
        /\ Raced(p, q)
        /\ cmd[q].op = "announce" /\ Releases(p)
        /\ JAnnouncement(model_dump_json(manifest[q])) # None
        /\ JAnnouncement(StoredBody) = None

\* ---------------------------------------------------------------------- C4
Before(t, a, b) ==
    \A i \in 1..Len(t) : t[i] = b => \E j \in 1..(i - 1) : t[j] = a

\* C4 (as claimed): in a release the artifact upload completes first, then the
\* manifest is read, then it is written: the read never precedes the upload.
C4_UploadThenRead ==
    \A p \in Procs :
        Releases(p) =>
            /\ Before(trace[p], "upload", "read")
            /\ Before(trace[p], "read", "write")

\* C4 (amended): in a release the manifest is read first, then the artifact
\* upload completes, then the manifest is written; the manifest write never
\* precedes the upload, and the upload never precedes the read.
C4_ReadUploadWrite ==
    \A p \in Procs :
        Releases(p) =>
            /\ Before(trace[p], "read", "upload")
            /\ Before(trace[p], "read", "upload!")
            /\ Before(trace[p], "upload", "write")
            /\ Before(trace[p], "upload", "write!")
            /\ Len(trace[p]) <= 3

\* a release that made all three remote calls
C4_Witness ==
    \E p \in Procs : Releases(p) /\ trace[p] = <<"read", "upload", "write">>

\* ---------------------------------------------------------------------- C5
C5_Step ==
    /\ \A q \in PLATFORMS :
           JRecord(StoredBody', q) # None =>
               \E k \in artifacts' : JRecord(StoredBody', q)[1].url = get_url(k)
    /\ \A p \in Procs :
           /\ (Releases(p) /\ pc[p] = "save" /\ pc'[p] = "done") =>
                  /\ Before(trace'[p], "upload", "write")
                  /\ release_key(cmd[p]) \in artifacts
                  /\ download_url[p] = Some(get_url(release_key(cmd[p])))
                  /\ JRecord(StoredBody', cmd[p].platform) # None
                  /\ JRecord(StoredBody', cmd[p].platform)[1].url = download_url[p][1]
           /\ (pc[p] = "upload" /\ pc'[p] = "failed") => store' = store
           /\ reason[p] = "UploadFailed" =>
                  /\ wroteAt'[p] = 0
                  /\ \A i \in 1..Len(trace'[p]) : trace'[p][i] # "write"
                  /\ (pc'[p] = pc[p] \/ pc'[p] = "idle")

\* C5: every platform record of the stored manifest carries the URL of an
\* artifact key that is stored; the record a release writes carries the URL of
\* the key that same invocation uploaded before; and an invocation whose
\* upload fails leaves the stored manifest as it was and never writes it.
C5_NoDanglingArtifact == [][C5_Step]_vars

\* an upload failed while a manifest with a release was stored
C5_Witness ==
    \E p \in Procs :
        /\ reason[p] = "UploadFailed"
        /\ \E q \in PLATFORMS : JRecord(StoredBody, q) # None

\* ---------------------------------------------------------------------- C6
BadArgs(c) ==
    \/ c.op \in {"release", "set_force"} /\ c.platform \notin PLATFORMS
    \/ c.op = "release" /\ c.file \notin FilesOnDisk

\* C6: a release with an unknown platform or a missing file, and a set-force
\* with an unknown platform, fail having made no remote call: nothing was
\* read, nothing uploaded and nothing written.
C6_ValidationBeforeIO ==
    \A p \in Procs :
        BadArgs(cmd[p]) =>
            /\ pc[p] = "failed"
            /\ reason[p] \in {"InvalidPlatform", "FileNotFound"}
            /\ trace[p] = <<>>
            /\ ~HasRead(p) /\ loaded[p] = NoData
            /\ download_url[p] = None
            /\ wroteAt[p] = 0

\* a release of a missing file failed while a manifest was stored
C6_Witness ==
    \E p \in Procs :
        /\ Releases(p) /\ cmd[p].file \notin FilesOnDisk /\ cmd[p].platform \in PLATFORMS
        /\ pc[p] = "failed"
        /\ store.kind = "json"

\* ---------------------------------------------------------------------- C7
\* C7: a set-force for a valid platform that read a manifest with no OTA
\* record fails with NoOtaConfigured, and one that read an OTA record with no
\* release of that platform fails with PlatformNotReleased; either has made
\* the read and no other remote call, so it has not written the manifest.
C7_SetForcePreconditions ==
    \A p \in Procs :
        (cmd[p].op = "set_force" /\ cmd[p].platform \in PLATFORMS /\ HasRead(p)
            /\ ~load_raises(loaded[p])) =>
            /\ JOta(LoadedBody(p)) = None =>
                   (pc[p] = "failed" /\ reason[p] = "NoOtaConfigured")
            /\ (JOta(LoadedBody(p)) # None
                  /\ JRecord(LoadedBody(p), cmd[p].platform) = None) =>
                   (pc[p] = "failed" /\ reason[p] = "PlatformNotReleased")
            /\ reason[p] \in {"NoOtaConfigured", "PlatformNotReleased"} =>
                   (trace[p] = <<"read">> /\ wroteAt[p] = 0)

\* a set-force for a platform with no release met a manifest with an OTA record
C7_Witness ==
    \E p \in Procs :
        /\ cmd[p].op = "set_force"
        /\ reason[p] = "PlatformNotReleased"
        /\ JOta(StoredBody) # None

\* ---------------------------------------------------------------------- C8
\* the JSON object that holds the update of command c and nothing else
OwnUpdateOnly(c) ==
    CASE c.op = "announce" ->
            [announcement |->
                [title |-> c.title, content |-> c.content,
                 confirm_require |-> c.confirm, md5 |-> <<"md5", c.title, c.content>>]]
      [] c.op = "release" ->
            [ota |->
                [k \in {"content", "changelog", c.platform} |->
                    IF k = "content" THEN c.content
                    ELSE IF k = "changelog"
                    THEN (IF c.changelog = "" THEN <<>>
                          ELSE <<[version |-> c.version, changes |-> c.changelog]>>)
                    ELSE [version |-> c.version, force_ota |-> c.force,
                          url |-> <<CdnBase, "loveace/releases", c.platform, c.version, c.file>>,
                          md5 |-> <<"md5", c.file>>]]]
      [] OTHER -> <<>>

\* the read of p met a stored object that is no JSON
ReadCorrupt(p) == seen[p] = "corrupt"

\* errors of the upload and of the write, which no stored document causes
IoFaults == {"UploadFailed", "WriteFailed"}

\* C8 (as claimed): a command that reads a stored manifest that is no JSON goes
\* on from the empty manifest and completes without an error, and the manifest
\* it writes holds its own update only.
C8_MalformedAsAbsent ==
    \A p \in Procs :
        ReadCorrupt(p) =>
            /\ loaded[p] = NoData
            /\ reason[p] \in {""} \cup IoFaults
            /\ WroteLast(p) => StoredBody = OwnUpdateOnly(cmd[p])

\* C8 (amended): a command that reads a stored manifest that is no JSON goes on
\* as it does when no manifest is stored: announce, clear-announce, release and
\* status go on from the empty manifest with no error of the read, and the
\* manifest they write holds their own update only; set-force fails with
\* NoOtaConfigured and writes nothing.
C8_MalformedAsAbsentButSetForce ==
    \A p \in Procs :
        ReadCorrupt(p) =>
            /\ loaded[p] = NoData
            /\ cmd[p].op # "set_force" => reason[p] \in {""} \cup IoFaults
            /\ cmd[p].op = "set_force" =>
                   /\ pc[p] = "failed" /\ reason[p] = "NoOtaConfigured"
                   /\ trace[p] = <<"read">>
            /\ WroteLast(p) => StoredBody = OwnUpdateOnly(cmd[p])

\* a release that read a manifest that is no JSON has written the manifest
C8_Witness ==
    \E p \in Procs : ReadCorrupt(p) /\ Releases(p) /\ WroteLast(p)

HasEntry(log, v) == \E i \in 1..Len(log) : log[i].version = v
Without(log, v) == LET other(e) == e.version # v IN SelectSeq(log, other)

====
